---- MODULE Spec2Model ----
(***************************************************************************)
(* The Three Musketeers (threeMusketeers.c): the board, the move           *)
(* validators, makeMove, the win evaluators and the play loop.             *)
(*                                                                         *)
(* The board is char board[N][N].  A C two-dimensional array is stored     *)
(* row by row, so board[i][k] is the byte at offset i*N+k of the array:    *)
(* an index pair whose offset lies in 0..N*N-1 reaches a cell of the board *)
(* even when k is -1 or N, and any other offset reaches memory outside     *)
(* the array, whose content is not determined by the program.              *)
(***************************************************************************)
EXTENDS Integers, Sequences, FiniteSets, TLC

\* #define N 5
N == 5

\* Most enemy pieces on a loaded board.
MaxEnemies == 2

Idx == 0 .. (N - 1)

\* The symbols of a board file.
Symbols == {"M", "o", "."}

\* What a byte outside the array may hold, as far as a comparison with 'o' or
\* '.' can tell: 'o', '.' or anything else.
Bytes == {"o", ".", "?"}

Cells == Idx \X Idx

(***************************************************************************)
(* Characters and the C library functions the program uses on them.        *)
(***************************************************************************)
\* The character codes (ASCII).
Ord(ch) ==
    CASE ch = "a" -> 97 [] ch = "b" -> 98 [] ch = "c" -> 99 [] ch = "d" -> 100
      [] ch = "e" -> 101 [] ch = "f" -> 102
      [] ch = "A" -> 65 [] ch = "B" -> 66 [] ch = "C" -> 67 [] ch = "D" -> 68
      [] ch = "E" -> 69
      [] ch = "0" -> 48 [] ch = "1" -> 49 [] ch = "2" -> 50 [] ch = "3" -> 51
      [] ch = "4" -> 52 [] ch = "5" -> 53 [] ch = "6" -> 54
      [] ch = "u" -> 117 [] ch = "l" -> 108 [] ch = "r" -> 114 [] ch = "x" -> 120
      [] ch = "h" -> 104 [] ch = "i" -> 105
      [] ch = "U" -> 85 [] ch = "L" -> 76 [] ch = "R" -> 82
      [] ch = " " -> 32 [] ch = "," -> 44 [] ch = "=" -> 61 [] ch = "\n" -> 10

\* tolower of <ctype.h>, as a character code.
tolower(ch) == IF Ord(ch) >= 65 /\ Ord(ch) <= 90 THEN Ord(ch) + 32 ELSE Ord(ch)

\* isspace of <ctype.h>, as sscanf uses it for white space in a format.
isspace(ch) == ch \in {" ", "\n"}

(***************************************************************************)
(* The board as memory.                                                    *)
(***************************************************************************)
\* Offset of board[i][k] from the start of the array.
Offset(i, k) == i * N + k

InArray(i, k) == Offset(i, k) >= 0 /\ Offset(i, k) < N * N

\* The value an expression board[i][k] reads: the cell (i, k) when both
\* indices are in range, the cell at the same offset when only the offset is,
\* and else out, the byte found outside the array.
Load(board, i, k, out) ==
    IF i \in Idx /\ k \in Idx THEN board[i][k]
    ELSE IF InArray(i, k) THEN board[Offset(i, k) \div N][Offset(i, k) % N]
    ELSE out

\* The board after the assignment board[i][k] = v; a store outside the array
\* changes no cell of the board.
Store(board, i, k, v) ==
    IF i \in Idx /\ k \in Idx THEN [board EXCEPT ![i][k] = v]
    ELSE IF InArray(i, k)
    THEN [board EXCEPT ![Offset(i, k) \div N][Offset(i, k) % N] = v]
    ELSE board

(***************************************************************************)
(* Move validation.  A validator reads the four neighbours of board[row]   *)
(* [col] one after the other; out.U, out.D, out.L and out.R are the bytes  *)
(* such a read finds when the neighbour lies outside the array.            *)
(***************************************************************************)
Letters == {"L", "l", "R", "r", "U", "u", "D", "d"}

\* The bytes outside the array that a validation of (row, col) can meet.  The
\* neighbours are read only when board[row][col] holds the piece of the side
\* that moves (the tests are joined by &&, which stops at the first that fails).
Outside(row, col, board, piece) ==
    IF <<row, col>> \in Cells /\ board[row][col] = piece
    THEN [U : IF InArray(row - 1, col) THEN {"?"} ELSE Bytes,
          D : IF InArray(row + 1, col) THEN {"?"} ELSE Bytes,
          L : IF InArray(row, col - 1) THEN {"?"} ELSE Bytes,
          R : IF InArray(row, col + 1) THEN {"?"} ELSE Bytes]
    ELSE {[U |-> "?", D |-> "?", L |-> "?", R |-> "?"]}

isValidMove(row, col, direction, board) ==
    LET cnt == IF row >= 0 /\ row < N /\ col >= 0 /\ col < N
               THEN IF direction \in Letters THEN 1 ELSE 0
               ELSE 0
    IN  cnt > 0

\* What isValidMove prints.
isValidMovePrints(row, col, direction) ==
    IF row >= 0 /\ row < N /\ col >= 0 /\ col < N
    THEN IF direction \in Letters THEN << >>
         ELSE <<"Invalid direction. Use L/l, R/r, U/u, or D/d.\n">>
    ELSE <<"\nThis move gets out of the board or is a wrong move.\n">>

\* isValidMusketeerMove with the destination compared with '.', as the
\* enemies' validator compares it, instead of with 'o'.
isValidMusketeerMoveOntoEmpty(row, col, direction, board, out) ==
    LET here == board[row][col]
        up == IF here = "M" /\ Load(board, row - 1, col, out.U) = "."
                 /\ direction \in {"U", "u"} /\ row > 0 THEN 1 ELSE 0
        down == IF here = "M" /\ Load(board, row + 1, col, out.D) = "."
                   /\ direction \in {"D", "d"} /\ row < N - 1 THEN 1 ELSE 0
        left == IF here = "M" /\ Load(board, row, col - 1, out.L) = "."
                   /\ direction \in {"L", "l"} /\ col > 0 THEN 1 ELSE 0
        right == IF here = "M" /\ Load(board, row, col + 1, out.R) = "."
                    /\ direction \in {"R", "r"} /\ col < N - 1 THEN 1 ELSE 0
        cnt == IF isValidMove(row, col, direction, board)
               THEN up + down + left + right
               ELSE 0
    IN  cnt > 0

\* isValidMusketeerMove without the tests row > 0, row < N-1, col > 0 and
\* col < N-1 that follow the reads of the neighbours.
isValidMusketeerMoveUnguarded(row, col, direction, board, out) ==
    LET here == board[row][col]
        up == IF here = "M" /\ Load(board, row - 1, col, out.U) = "o"
                 /\ direction \in {"U", "u"} THEN 1 ELSE 0
        down == IF here = "M" /\ Load(board, row + 1, col, out.D) = "o"
                   /\ direction \in {"D", "d"} THEN 1 ELSE 0
        left == IF here = "M" /\ Load(board, row, col - 1, out.L) = "o"
                   /\ direction \in {"L", "l"} THEN 1 ELSE 0
        right == IF here = "M" /\ Load(board, row, col + 1, out.R) = "o"
                    /\ direction \in {"R", "r"} THEN 1 ELSE 0
        cnt == IF isValidMove(row, col, direction, board)
               THEN up + down + left + right
               ELSE 0
    IN  cnt > 0

isValidMusketeerMove(row, col, direction, board, out) ==
    LET here == board[row][col]
        up == IF here = "M" /\ Load(board, row - 1, col, out.U) = "o"
                 /\ direction \in {"U", "u"} /\ row > 0 THEN 1 ELSE 0
        down == IF here = "M" /\ Load(board, row + 1, col, out.D) = "o"
                   /\ direction \in {"D", "d"} /\ row < N - 1 THEN 1 ELSE 0
        left == IF here = "M" /\ Load(board, row, col - 1, out.L) = "o"
                   /\ direction \in {"L", "l"} /\ col > 0 THEN 1 ELSE 0
        right == IF here = "M" /\ Load(board, row, col + 1, out.R) = "o"
                    /\ direction \in {"R", "r"} /\ col < N - 1 THEN 1 ELSE 0
        cnt == IF isValidMove(row, col, direction, board)
               THEN up + down + left + right
               ELSE 0
    IN  cnt > 0

\* isValidEnemyMove with the destination compared with 'o', as the
\* Musketeers' validator compares it, instead of with '.'.
isValidEnemyMoveOntoEnemy(row, col, direction, board, out) ==
    LET here == board[row][col]
        up == IF here = "o" /\ Load(board, row - 1, col, out.U) = "o"
                 /\ direction \in {"U", "u"} THEN 1 ELSE 0
        down == IF here = "o" /\ Load(board, row + 1, col, out.D) = "o"
                   /\ direction \in {"D", "d"} THEN 1 ELSE 0
        left == IF here = "o" /\ Load(board, row, col - 1, out.L) = "o"
                   /\ direction \in {"L", "l"} THEN 1 ELSE 0
        right == IF here = "o" /\ Load(board, row, col + 1, out.R) = "o"
                    /\ direction \in {"R", "r"} THEN 1 ELSE 0
        cnt == IF isValidMove(row, col, direction, board)
               THEN up + down + left + right
               ELSE 0
    IN  cnt > 0

isValidEnemyMove(row, col, direction, board, out) ==
    LET here == board[row][col]
        up == IF here = "o" /\ Load(board, row - 1, col, out.U) = "."
                 /\ direction \in {"U", "u"} THEN 1 ELSE 0
        down == IF here = "o" /\ Load(board, row + 1, col, out.D) = "."
                   /\ direction \in {"D", "d"} THEN 1 ELSE 0
        left == IF here = "o" /\ Load(board, row, col - 1, out.L) = "."
                   /\ direction \in {"L", "l"} THEN 1 ELSE 0
        right == IF here = "o" /\ Load(board, row, col + 1, out.R) = "."
                    /\ direction \in {"R", "r"} THEN 1 ELSE 0
        cnt == IF isValidMove(row, col, direction, board)
               THEN up + down + left + right
               ELSE 0
    IN  cnt > 0

\* The index pairs (i, k) of the expressions board[i][k] that a call of
\* isValidMusketeerMove evaluates: board[row][col] in each of the four if
\* statements and, when it holds 'M', the neighbour that the && reads next,
\* before the direction and the row or column are tested.
isValidMusketeerMoveReads(row, col, direction, board) ==
    IF isValidMove(row, col, direction, board)
    THEN {<<row, col>>}
            \cup (IF board[row][col] = "M"
                  THEN {<<row - 1, col>>, <<row + 1, col>>,
                        <<row, col - 1>>, <<row, col + 1>>}
                  ELSE {})
    ELSE {}

\* The same for isValidEnemyMove.
isValidEnemyMoveReads(row, col, direction, board) ==
    IF isValidMove(row, col, direction, board)
    THEN {<<row, col>>}
            \cup (IF board[row][col] = "o"
                  THEN {<<row - 1, col>>, <<row + 1, col>>,
                        <<row, col - 1>>, <<row, col + 1>>}
                  ELSE {})
    ELSE {}

(***************************************************************************)
(* Move application.  makeMove is called with a direction a validator has  *)
(* accepted, which is one of the eight letters.                            *)
(***************************************************************************)
newRow(row, direction) ==
    CASE direction \in {"l", "L"} -> row
      [] direction \in {"r", "R"} -> row
      [] direction \in {"u", "U"} -> row - 1
      [] direction \in {"d", "D"} -> row + 1

newCol(col, direction) ==
    CASE direction \in {"l", "L"} -> col - 1
      [] direction \in {"r", "R"} -> col + 1
      [] direction \in {"u", "U"} -> col
      [] direction \in {"d", "D"} -> col

\* makeMove without the assignment board[row][col] = '.'.
makeMoveKeepsSource(row, col, direction, board, mTurn) ==
    Store(board, newRow(row, direction), newCol(col, direction),
          IF mTurn THEN "M" ELSE "o")

makeMove(row, col, direction, board, mTurn) ==
    Store(Store(board, row, col, "."),
          newRow(row, direction), newCol(col, direction),
          IF mTurn THEN "M" ELSE "o")

(***************************************************************************)
(* Win evaluation.                                                         *)
(***************************************************************************)
\* winMusketeers without the test of the cell below a Musketeer.
winMusketeersNoDown(board) ==
    LET musketeers == {c \in Cells : board[c[1]][c[2]] = "M"}
        hits == {t \in musketeers \X {"L", "R", "U"} :
                    LET i == t[1][1]
                        k == t[1][2]
                    IN  CASE t[2] = "L" -> k - 1 >= 0 /\ board[i][k - 1] = "o"
                          [] t[2] = "R" -> k + 1 < N /\ board[i][k + 1] = "o"
                          [] t[2] = "U" -> i - 1 >= 0 /\ board[i - 1][k] = "o"}
        cnt == Cardinality(hits)
    IN  ~(cnt > 0)

winMusketeers(board) ==
    LET musketeers == {c \in Cells : board[c[1]][c[2]] = "M"}
        hits == {t \in musketeers \X {"L", "R", "U", "D"} :
                    LET i == t[1][1]
                        k == t[1][2]
                    IN  CASE t[2] = "L" -> k - 1 >= 0 /\ board[i][k - 1] = "o"
                          [] t[2] = "R" -> k + 1 < N /\ board[i][k + 1] = "o"
                          [] t[2] = "U" -> i - 1 >= 0 /\ board[i - 1][k] = "o"
                          [] t[2] = "D" -> i + 1 < N /\ board[i + 1][k] = "o"}
        cnt == Cardinality(hits)
    IN  ~(cnt > 0)

\* winEnemies without the loop over the columns.
winEnemiesRowsOnly(board) ==
    \E i \in Idx : Cardinality({k \in Idx : board[i][k] = "M"}) = 3

winEnemies(board) ==
    \/ \E i \in Idx : Cardinality({k \in Idx : board[i][k] = "M"}) = 3
    \/ \E k \in Idx : Cardinality({i \in Idx : board[i][k] = "M"}) = 3

\* winGame that asks winMusketeers alone.
winGameMusketeersOnly(board) == winMusketeers(board)

winGame(board) == winMusketeers(board) \/ winEnemies(board)

(***************************************************************************)
(* Move input: fgets, strcmp with the interrupt command, sscanf.           *)
(***************************************************************************)
\* sizeof(playerMove): playerMove is a char *, eight bytes.
SizeofPlayerMove == 8

RowChars == {"a", "b", "c", "d", "e"}

ColChars == {"1", "2", "3", "4", "5"}

DirChars == {"u", "d", "l", "r"}

\* The lines a player may type: moves on the board in lower case, some in
\* upper case, moves off the board, unknown directions, moves typed with
\* spaces, the interrupt command and lines that are no move.
TypedLines ==
    {<<r, ",", c, "=", d, "\n">> : r \in RowChars, c \in ColChars, d \in DirChars}
        \cup {<<r, ",", c, "=", d, "\n">> :
                  r \in {"A", "B", "E"}, c \in {"1", "5"}, d \in {"U", "D", "L", "R"}}
        \cup {<<r, ",", c, "=", d, "\n">> :
                  r \in {"a", "f"}, c \in {"0", "1", "6"}, d \in {"r", "x"}}
        \cup {<<r, ",", c, " ", "=", " ", d, "\n">> :
                  r \in {"a", "E"}, c \in {"1", "5"}, d \in {"r", "U"}}
        \cup {<<" ", r, ",", c, "=", d, "\n">> :
                  r \in {"a", "E"}, c \in {"1", "5"}, d \in {"r", "U"}}
        \cup {<<"0", ",", "0", "=", "E", "\n">>, <<"0", ",", "0", "=", "e", "\n">>,
              <<"\n">>, <<"h", "i", "\n">>, <<"a", "1", "=", "r", "\n">>,
              <<"a", ",", "1", "=", "\n">>, <<"a", ",", "1", "\n">>}

\* fgets(playerMove, sizeof(playerMove), stdin): at most sizeof - 1 characters
\* of the line; the next call reads what is left of it.
fgets(line) ==
    IF Len(line) <= SizeofPlayerMove - 1
    THEN line
    ELSE SubSeq(line, 1, SizeofPlayerMove - 1)

fgetsRest(line) ==
    IF Len(line) <= SizeofPlayerMove - 1
    THEN <<"\n">>
    ELSE SubSeq(line, SizeofPlayerMove, Len(line))

\* The index of the first character of s at or after i that is not white space.
RECURSIVE SkipSpace(_, _)
SkipSpace(s, i) ==
    IF i <= Len(s) /\ isspace(s[i]) THEN SkipSpace(s, i + 1) ELSE i

\* sscanf(s, " %c,%c=%c", ...): the number of conversions and the third one.
sscanfTight(s) ==
    LET i == SkipSpace(s, 1)
    IN  IF i > Len(s) THEN [n |-> -1, direction |-> "?"]
        ELSE IF i + 1 > Len(s) \/ s[i + 1] # "," THEN [n |-> 1, direction |-> "?"]
        ELSE IF i + 2 > Len(s) THEN [n |-> 1, direction |-> "?"]
        ELSE IF i + 3 > Len(s) \/ s[i + 3] # "=" THEN [n |-> 2, direction |-> "?"]
        ELSE IF i + 4 > Len(s) THEN [n |-> 2, direction |-> "?"]
        ELSE [n |-> 3, direction |-> s[i + 4]]

\* sscanf(s, " %c,%c = %c", ...).
sscanfSpaced(s) ==
    LET i == SkipSpace(s, 1)
        j == SkipSpace(s, i + 3)
        m == SkipSpace(s, j + 1)
    IN  IF i > Len(s) THEN [n |-> -1, direction |-> "?"]
        ELSE IF i + 1 > Len(s) \/ s[i + 1] # "," THEN [n |-> 1, direction |-> "?"]
        ELSE IF i + 2 > Len(s) THEN [n |-> 1, direction |-> "?"]
        ELSE IF j > Len(s) \/ s[j] # "=" THEN [n |-> 2, direction |-> "?"]
        ELSE IF m > Len(s) THEN [n |-> 2, direction |-> "?"]
        ELSE [n |-> 3, direction |-> s[m]]

\* What one pass of the loop of play makes of the string playerMove: the
\* interrupt command, a move (row, col, direction), or no move at all.
Request(s) ==
    IF s = <<"0", ",", "0", "=", "E", "\n">> \/ s = <<"0", ",", "0", "=", "e", "\n">>
    THEN [kind |-> "interrupt", row |-> 0, col |-> 0, direction |-> "?"]
    ELSE IF sscanfTight(s).n = 3 \/ sscanfSpaced(s).n = 3
    THEN [kind |-> "move",
          row |-> tolower(s[1]) - Ord("a"),
          col |-> Ord(s[3]) - Ord("1"),
          direction |-> IF sscanfTight(s).n = 3
                        THEN sscanfTight(s).direction
                        ELSE sscanfSpaced(s).direction]
    ELSE [kind |-> "malformed", row |-> 0, col |-> 0, direction |-> "?"]

\* Every request the typed lines give rise to.
Requests == {Request(fgets(l)) : l \in TypedLines} \cup {Request(fgetsRest(l)) : l \in TypedLines}

(***************************************************************************)
(* Saving and loading.  A file is the sequence of its characters.          *)
(***************************************************************************)
\* The text writeBoard puts in the output file.
RECURSIVE writeRow(_, _, _)
writeRow(board, i, k) ==
    IF k = N THEN <<"\n">>
    ELSE <<board[i][k]>> \o (IF k < N - 1 THEN <<" ">> ELSE << >>) \o writeRow(board, i, k + 1)

RECURSIVE writeRows(_, _)
writeRows(board, i) ==
    IF i = N THEN << >> ELSE writeRow(board, i, 0) \o writeRows(board, i + 1)

writeBoard(board) == writeRows(board, 0)

\* The loops of readBoard from the character at pos on, cells being the
\* symbols stored so far, row by row: fgetc meets the end of the file or a
\* character that is none of 'o', 'M', newline, space and '.', and readBoard
\* fails; it meets a newline or a space and takes the next character for the
\* same cell; it meets a symbol and stores it.
\* readCells that skips the newlines only and stores a space as a symbol.
RECURSIVE readCellsStoresSpaces(_, _, _)
readCellsStoresSpaces(text, pos, cells) ==
    IF Len(cells) = N * N THEN [ok |-> TRUE, cells |-> cells]
    ELSE IF pos > Len(text) THEN [ok |-> FALSE, cells |-> cells]
    ELSE IF text[pos] \notin {"o", "M", "\n", " ", "."} THEN [ok |-> FALSE, cells |-> cells]
    ELSE IF text[pos] # "\n"
    THEN readCellsStoresSpaces(text, pos + 1, Append(cells, text[pos]))
    ELSE readCellsStoresSpaces(text, pos + 1, cells)

RECURSIVE readCells(_, _, _)
readCells(text, pos, cells) ==
    IF Len(cells) = N * N THEN [ok |-> TRUE, cells |-> cells]
    ELSE IF pos > Len(text) THEN [ok |-> FALSE, cells |-> cells]
    ELSE IF text[pos] \notin {"o", "M", "\n", " ", "."} THEN [ok |-> FALSE, cells |-> cells]
    ELSE IF text[pos] # "\n" /\ text[pos] # " "
    THEN readCells(text, pos + 1, Append(cells, text[pos]))
    ELSE readCells(text, pos + 1, cells)

\* readBoard: its return value and the array it leaves ('?' is a cell it has
\* not stored to).
readBoard(text) ==
    LET r == readCells(text, 1, << >>)
    IN  [ok |-> r.ok,
         board |-> [i \in Idx |-> [k \in Idx |->
                      IF Offset(i, k) + 1 <= Len(r.cells)
                      THEN r.cells[Offset(i, k) + 1]
                      ELSE "?"]]]

(***************************************************************************)
(* The session: main reads the board and calls play.                       *)
(*   board           the board                                             *)
(*   musketeersTurn  the flag of play: TRUE for the Musketeers' turn       *)
(*   pc              "play" inside play, "done" once play has returned     *)
(*   move            what the last pass of the loop did with its input:    *)
(*                   kind "applied" with the move when makeMove ran,       *)
(*                   "rejected", "malformed" or "interrupt" otherwise      *)
(*   announced       the winners the code after the loop has printed       *)
(*   saves           the texts written by writeBoard, in order             *)
(*   loadedEnemies   the number of 'o' on the board play was called with   *)
(*   mMoves, oMoves  the calls of makeMove so far, for the Musketeers and  *)
(*                   for the enemies                                       *)
(***************************************************************************)
VARIABLES board, musketeersTurn, pc, move, announced, saves,
          loadedEnemies, mMoves, oMoves

vars == <<board, musketeersTurn, pc, move, announced, saves,
          loadedEnemies, mMoves, oMoves>>

\* The cells the three Musketeers of a loaded board may stand on.
MusketeerCells == {<<0, 0>>, <<0, 2>>, <<1, 0>>, <<1, 1>>, <<2, 0>>, <<4, 4>>}

\* The cells the enemies of a loaded board may stand on.
EnemyCells == {<<0, 1>>, <<1, 0>>, <<1, 1>>, <<4, 3>>}

MusketeerStarts == {ms \in SUBSET MusketeerCells : Cardinality(ms) = 3}

\* The sets of at most n cells of free.
RECURSIVE EnemyStarts(_, _)
EnemyStarts(free, n) ==
    IF n = 0 THEN {{}}
    ELSE LET less == EnemyStarts(free, n - 1)
         IN  less \cup {es \cup {e} : es \in less, e \in free}

BoardOf(ms, es) ==
    [i \in Idx |-> [k \in Idx |->
        IF <<i, k>> \in ms THEN "M" ELSE IF <<i, k>> \in es THEN "o" ELSE "."]]

\* The boards readBoard may have loaded.
LoadedBoards ==
    {BoardOf(ms, es) : ms \in MusketeerStarts, es \in EnemyStarts(EnemyCells, MaxEnemies)}

NoMove == [kind |-> "none", row |-> 0, col |-> 0, direction |-> "?", mTurn |-> TRUE]

Init ==
    /\ board \in LoadedBoards
    /\ musketeersTurn = TRUE
    /\ pc = "play"
    /\ move = NoMove
    /\ announced = << >>
    /\ saves = << >>
    /\ loadedEnemies = Cardinality({c \in Cells : board[c[1]][c[2]] = "o"})
    /\ mMoves = 0
    /\ oMoves = 0

\* The code of play after the loop: the winners it prints, in order, and what
\* it saves.
\* AfterLoopAnnounces with the two tests as separate if statements.
AfterLoopAnnouncesBoth(b) ==
    (IF winMusketeers(b) THEN <<"The Musketeers win!">> ELSE << >>)
        \o (IF winEnemies(b) THEN <<"Cardinal Richelieu's men win!">> ELSE << >>)

AfterLoopAnnounces(b) ==
    IF winMusketeers(b) THEN <<"The Musketeers win!">>
    ELSE IF winEnemies(b) THEN <<"Cardinal Richelieu's men win!">>
    ELSE << >>

\* AfterLoopSaves with gameInterrupt called whether or not a side has won.
AfterLoopSavesAlways(b) == <<writeBoard(b)>>

AfterLoopSaves(b) ==
    IF winMusketeers(b) THEN <<writeBoard(b)>>
    ELSE IF winEnemies(b) THEN <<writeBoard(b)>>
    ELSE << >>

\* What a pass of the loop prints for a move request on its turn.
MovePrints(q, mTurn, accepted) ==
    <<IF mTurn THEN "\nGive the Musketeer's move\n>" ELSE "\nGive the enemy's move\n>">>
        \o isValidMovePrints(q.row, q.col, q.direction)
        \o (IF accepted THEN <<"display_board">>
            ELSE IF mTurn THEN <<"\nNo Musketeers spotted!.\n">>
            ELSE <<"\nNo enemies spotted!\n">>)

\* A pass of the loop that reads the interrupt command: gameInterrupt, break,
\* then the code after the loop.
PlayInterrupt ==
    /\ pc = "play"
    /\ ~winGame(board)
    /\ \E q \in Requests :
        /\ q.kind = "interrupt"
        /\ saves' = saves \o <<writeBoard(board)>> \o AfterLoopSaves(board)
        /\ announced' = AfterLoopAnnounces(board)
        /\ move' = [NoMove EXCEPT !.kind = "interrupt", !.mTurn = musketeersTurn]
        /\ pc' = "done"
        /\ UNCHANGED <<board, musketeersTurn, loadedEnemies, mMoves, oMoves>>

\* A pass of the loop that reads a string neither sscanf converts.
PlayMalformed ==
    /\ pc = "play"
    /\ ~winGame(board)
    /\ \E q \in Requests :
        /\ q.kind = "malformed"
        /\ move' = [NoMove EXCEPT !.kind = "malformed", !.mTurn = musketeersTurn]
        /\ UNCHANGED <<board, musketeersTurn, pc, announced, saves,
                       loadedEnemies, mMoves, oMoves>>

\* A pass of the loop that reads a move on the Musketeers' turn.
PlayMusketeer ==
    /\ pc = "play"
    /\ ~winGame(board)
    /\ musketeersTurn
    /\ \E q \in Requests :
        /\ q.kind = "move"
        /\ \E out \in Outside(q.row, q.col, board, "M") :
            IF isValidMusketeerMove(q.row, q.col, q.direction, board, out)
            THEN /\ board' = makeMove(q.row, q.col, q.direction, board, musketeersTurn)
                 /\ musketeersTurn' = ~musketeersTurn
                 /\ move' = [kind |-> "applied", row |-> q.row, col |-> q.col,
                             direction |-> q.direction, mTurn |-> musketeersTurn]
                 /\ mMoves' = mMoves + 1
                 /\ UNCHANGED <<pc, announced, saves, loadedEnemies, oMoves>>
            ELSE /\ move' = [NoMove EXCEPT !.kind = "rejected", !.mTurn = musketeersTurn]
                 /\ UNCHANGED <<board, musketeersTurn, pc, announced, saves,
                                loadedEnemies, mMoves, oMoves>>

\* PlayEnemy without musketeersTurn = !musketeersTurn after makeMove.
PlayEnemyKeepsTurn ==
    /\ pc = "play"
    /\ ~winGame(board)
    /\ ~musketeersTurn
    /\ \E q \in Requests :
        /\ q.kind = "move"
        /\ \E out \in Outside(q.row, q.col, board, "o") :
            IF isValidEnemyMove(q.row, q.col, q.direction, board, out)
            THEN /\ board' = makeMove(q.row, q.col, q.direction, board, musketeersTurn)
                 /\ move' = [kind |-> "applied", row |-> q.row, col |-> q.col,
                             direction |-> q.direction, mTurn |-> musketeersTurn]
                 /\ oMoves' = oMoves + 1
                 /\ UNCHANGED <<musketeersTurn, pc, announced, saves,
                                loadedEnemies, mMoves>>
            ELSE /\ move' = [NoMove EXCEPT !.kind = "rejected", !.mTurn = musketeersTurn]
                 /\ UNCHANGED <<board, musketeersTurn, pc, announced, saves,
                                loadedEnemies, mMoves, oMoves>>

\* A pass of the loop that reads a move on the enemies' turn.
PlayEnemy ==
    /\ pc = "play"
    /\ ~winGame(board)
    /\ ~musketeersTurn
    /\ \E q \in Requests :
        /\ q.kind = "move"
        /\ \E out \in Outside(q.row, q.col, board, "o") :
            IF isValidEnemyMove(q.row, q.col, q.direction, board, out)
            THEN /\ board' = makeMove(q.row, q.col, q.direction, board, musketeersTurn)
                 /\ musketeersTurn' = ~musketeersTurn
                 /\ move' = [kind |-> "applied", row |-> q.row, col |-> q.col,
                             direction |-> q.direction, mTurn |-> musketeersTurn]
                 /\ oMoves' = oMoves + 1
                 /\ UNCHANGED <<pc, announced, saves, loadedEnemies, mMoves>>
            ELSE /\ move' = [NoMove EXCEPT !.kind = "rejected", !.mTurn = musketeersTurn]
                 /\ UNCHANGED <<board, musketeersTurn, pc, announced, saves,
                                loadedEnemies, mMoves, oMoves>>

\* The loop test finds winGame(board): the loop ends and the code after it runs.
GameOver ==
    /\ pc = "play"
    /\ winGame(board)
    /\ announced' = AfterLoopAnnounces(board)
    /\ saves' = saves \o AfterLoopSaves(board)
    /\ pc' = "done"
    /\ UNCHANGED <<board, musketeersTurn, move, loadedEnemies, mMoves, oMoves>>

Next == PlayInterrupt \/ PlayMalformed \/ PlayMusketeer \/ PlayEnemy \/ GameOver

Spec == Init /\ [][Next]_vars

(***************************************************************************)
(* The program from main on: it reads the file named on the command line   *)
(* and calls play on the board read; the file may be one that an earlier   *)
(* run of the program has saved.                                           *)
(***************************************************************************)
\* The cells the 'M' of a board file may stand on, and how many there are.
FileMusketeerCells == {<<0, 0>>, <<0, 2>>, <<1, 0>>, <<4, 4>>}

FileMusketeerStarts ==
    {ms \in SUBSET FileMusketeerCells : Cardinality(ms) >= 2}

FileBoards ==
    {BoardOf(ms, es) : ms \in FileMusketeerStarts, es \in EnemyStarts(EnemyCells, MaxEnemies)}

\* A board without enemies, for the files that are no board.
PlainBoard == BoardOf({<<0, 0>>, <<0, 2>>, <<4, 4>>}, {})

\* The files the program may be run with: boards as writeBoard writes them,
\* the same without the spaces, a file that ends early and one with a
\* character that is no symbol.
Files ==
    {writeBoard(b) : b \in FileBoards}
        \cup {SelectSeq(writeBoard(PlainBoard), LAMBDA ch : ch # " ")}
        \cup {SubSeq(writeBoard(PlainBoard), 1, 4 * 2 * N)}
        \cup {<<"x">> \o writeBoard(PlainBoard)}

\* The array of main before readBoard has stored to it.
Unread == [i \in Idx |-> [k \in Idx |-> "?"]]

InitMain ==
    /\ board = Unread
    /\ musketeersTurn = TRUE
    /\ pc = "main"
    /\ move = NoMove
    /\ announced = << >>
    /\ saves = << >>
    /\ loadedEnemies = 0
    /\ mMoves = 0
    /\ oMoves = 0

\* main on the file text: readBoard (twice, with the same outcome), then
\* play, which starts with musketeersTurn = 1, or return when readBoard fails.
MainOn(text) ==
    /\ board' = readBoard(text).board
    /\ pc' = IF readBoard(text).ok THEN "play" ELSE "done"
    /\ musketeersTurn' = TRUE
    /\ move' = NoMove
    /\ announced' = << >>
    /\ saves' = << >>
    /\ loadedEnemies' = Cardinality({c \in Cells : readBoard(text).board[c[1]][c[2]] = "o"})
    /\ mMoves' = 0
    /\ oMoves' = 0

\* The program is run with a file.
Main ==
    /\ pc = "main"
    /\ \E text \in Files : MainOn(text)

\* The program is run again, with the file the run before has saved.
Restart ==
    /\ pc = "done"
    /\ saves # << >>
    /\ MainOn(saves[Len(saves)])

NextMain ==
    Main \/ Restart \/ PlayInterrupt \/ PlayMalformed \/ PlayMusketeer \/ PlayEnemy \/ GameOver

SpecMain == InitMain /\ [][NextMain]_vars

(***************************************************************************)
(* The rules of the game, stated on the grid without the code: the         *)
(* properties below compare the code with them.                            *)
(***************************************************************************)
InGrid(i, k) == i \in Idx /\ k \in Idx

\* One step from (row, col) in the direction a letter names.
Dest(row, col, direction) ==
    CASE direction \in {"U", "u"} -> <<row - 1, col>>
      [] direction \in {"D", "d"} -> <<row + 1, col>>
      [] direction \in {"L", "l"} -> <<row, col - 1>>
      [] direction \in {"R", "r"} -> <<row, col + 1>>

DestInGrid(row, col, direction) ==
    InGrid(Dest(row, col, direction)[1], Dest(row, col, direction)[2])

At(b, c) == b[c[1]][c[2]]

Holding(b, sym) == {c \in Cells : At(b, c) = sym}

Count(b, sym) == Cardinality(Holding(b, sym))

Distance(c, d) ==
    (IF c[1] > d[1] THEN c[1] - d[1] ELSE d[1] - c[1])
        + (IF c[2] > d[2] THEN c[2] - d[2] ELSE d[2] - c[2])

\* The cells of the grid orthogonally adjacent to c.
Neighbours(c) == {d \in Cells : Distance(c, d) = 1}

\* Some Musketeer has an Enemy next to it.
MusketeerThreatened(b) ==
    \E c \in Holding(b, "M") : \E d \in Neighbours(c) : At(b, d) = "o"

\* All Musketeers stand in one row, or all in one column.
AllInOneRow(b) == \E i \in Idx : \A c \in Holding(b, "M") : c[1] = i

AllInOneColumn(b) == \E k \in Idx : \A c \in Holding(b, "M") : c[2] = k

\* The pass of the loop that led to this state applied a move of that side.
MusketeerMoved == move.kind = "applied" /\ move.mTurn

EnemyMoved == move.kind = "applied" /\ ~move.mTurn

(***************************************************************************)
(* C1.  For every board, every position of the grid and every direction    *)
(* letter (either case), isValidMusketeerMove accepts exactly when the     *)
(* source holds a Musketeer, the destination is in the grid and the        *)
(* destination holds an Enemy; whatever lies outside the array.            *)
(***************************************************************************)
C1_MusketeerValidator ==
    \A row \in Idx, col \in Idx :
        \A out \in Outside(row, col, board, "M") : \A direction \in Letters :
            IF isValidMusketeerMove(row, col, direction, board, out)
            THEN /\ board[row][col] = "M"
                 /\ DestInGrid(row, col, direction)
                 /\ At(board, Dest(row, col, direction)) = "o"
            ELSE \/ board[row][col] # "M"
                 \/ ~DestInGrid(row, col, direction)
                 \/ At(board, Dest(row, col, direction)) # "o"

\* A Musketeer's request has been rejected on a board where a Musketeer has an
\* Empty neighbour, another a Musketeer neighbour, and one stands on the edge.
C1_Witness ==
    /\ move.kind = "rejected" /\ move.mTurn
    /\ \E c \in Holding(board, "M") : \E d \in Neighbours(c) : At(board, d) = "."
    /\ \E c \in Holding(board, "M") : \E d \in Neighbours(c) : At(board, d) = "M"
    /\ \E c \in Holding(board, "M") : c[1] = 0 \/ c[2] = 0

(***************************************************************************)
(* C2.  A move whose destination falls outside the grid is rejected, for   *)
(* either side: no move that a pass of the loop applied has its            *)
(* destination outside the grid.                                           *)
(***************************************************************************)
C2_OutOfBoundsRejected ==
    move.kind = "applied" => DestInGrid(move.row, move.col, move.direction)

(***************************************************************************)
(* C3.  For every board, every position and direction with the destination *)
(* in the grid, isValidEnemyMove accepts exactly when the source holds an  *)
(* Enemy and the destination is Empty; a source that holds no Enemy, and a *)
(* destination cell that holds a Musketeer or an Enemy, are rejected.      *)
(***************************************************************************)
C3_EnemyValidator ==
    \A row \in Idx, col \in Idx :
        \A out \in Outside(row, col, board, "o") : \A direction \in Letters :
            IF isValidEnemyMove(row, col, direction, board, out)
            THEN /\ board[row][col] = "o"
                 /\ DestInGrid(row, col, direction)
                        => At(board, Dest(row, col, direction)) = "."
                 /\ LET dest == Dest(row, col, direction)
                    IN  ~(InArray(dest[1], dest[2])
                            /\ Load(board, dest[1], dest[2], "?") \in {"M", "o"})
            ELSE \/ board[row][col] # "o"
                 \/ ~DestInGrid(row, col, direction)
                 \/ At(board, Dest(row, col, direction)) # "."

\* An Enemy has moved into an Empty cell of the grid, and another Enemy now
\* stands next to a Musketeer or an Enemy.
C3_Witness ==
    /\ EnemyMoved
    /\ DestInGrid(move.row, move.col, move.direction)
    /\ \E c \in Holding(board, "o") : \E d \in Neighbours(c) : At(board, d) \in {"M", "o"}

(***************************************************************************)
(* C4.  A pass of the loop that applies a Musketeer move on a board with   *)
(* three Musketeers empties the source, puts a Musketeer on the            *)
(* destination, changes no other cell, takes one Enemy off and leaves      *)
(* three Musketeers.                                                       *)
(***************************************************************************)
C4_MusketeerMoveEffect ==
    [][(musketeersTurn /\ ~musketeersTurn' /\ Count(board, "M") = 3) =>
          LET src == <<move'.row, move'.col>>
              dst == Dest(move'.row, move'.col, move'.direction)
          IN  /\ move'.kind = "applied"
              /\ src \in Cells /\ dst \in Cells
              /\ At(board', src) = "." /\ At(board', dst) = "M"
              /\ \A c \in Cells \ {src, dst} : At(board', c) = At(board, c)
              /\ Count(board', "o") = Count(board, "o") - 1
              /\ Count(board', "M") = 3]_vars

C4_Witness == MusketeerMoved /\ Count(board, "M") = 3

(***************************************************************************)
(* C5.  A pass of the loop that applies an Enemy move leaves the number of *)
(* Musketeers and the number of Enemies on the board as they were.         *)
(***************************************************************************)
C5_EnemyMoveKeepsCounts ==
    [][(~musketeersTurn /\ musketeersTurn') =>
          /\ Count(board', "M") = Count(board, "M")
          /\ Count(board', "o") = Count(board, "o")]_vars

(***************************************************************************)
(* C6.  The Musketeers move first.  A pass of the loop that applies a move *)
(* applies it for the side whose turn it is and gives the turn to the      *)
(* other side; a pass that rejects a move or reads no move changes neither *)
(* the board nor the turn; nothing else changes them.                      *)
(***************************************************************************)
C6_TurnsAlternate ==
    /\ [](move.kind = "none" => musketeersTurn)
    /\ [][/\ (board' # board \/ musketeersTurn' # musketeersTurn)
                => /\ move'.kind = "applied"
                   /\ move'.mTurn = musketeersTurn
                   /\ musketeersTurn' = ~musketeersTurn
          /\ (move' # move /\ move'.kind = "applied")
                => /\ board' # board
                   /\ musketeersTurn' = ~musketeersTurn
          /\ (move' # move /\ move'.kind \in {"rejected", "malformed"})
                => /\ board' = board
                   /\ musketeersTurn' = musketeersTurn]_vars

\* After a Musketeer move, a request of the enemies has been turned down and
\* it is still the enemies' turn.
C6_Witness ==
    /\ move.kind \in {"rejected", "malformed"}
    /\ ~move.mTurn
    /\ ~musketeersTurn
    /\ pc = "play"

(***************************************************************************)
(* C7.  Once the Musketeers or the enemies have won on the board, no       *)
(* further request is read, no move is applied and the board stays as it   *)
(* is: the only step left is the end of play.                              *)
(***************************************************************************)
C7_NoMoveAfterWin ==
    [][(winMusketeers(board) \/ winEnemies(board))
          => /\ board' = board
             /\ move' = move
             /\ musketeersTurn' = musketeersTurn
             /\ pc' = "done"]_vars

\* play has ended on a board that was won when it was loaded.
C7_Witness ==
    /\ pc = "done"
    /\ move.kind = "none"
    /\ winEnemies(board)
    /\ ~winMusketeers(board)

(***************************************************************************)
(* C8.  When the Musketeers are declared the winners, no Musketeer has an  *)
(* Enemy next to it and the Musketeers are not all in one row nor all in   *)
(* one column.                                                             *)
(***************************************************************************)
C8_MusketeersWinNotAligned ==
    announced = <<"The Musketeers win!">>
        => /\ ~MusketeerThreatened(board)
           /\ ~AllInOneRow(board)
           /\ ~AllInOneColumn(board)

(***************************************************************************)
(* C9.  On a board with three Musketeers, winEnemies is true exactly when  *)
(* the three stand in one row or in one column, wherever the Enemies are.  *)
(***************************************************************************)
C9_WinEnemies ==
    Count(board, "M") = 3 =>
        (winEnemies(board) <=> AllInOneRow(board) \/ AllInOneColumn(board))

\* A capture has put the three Musketeers in one row while Enemies remain.
C9_Witness ==
    /\ MusketeerMoved
    /\ Count(board, "M") = 3
    /\ AllInOneRow(board)
    /\ Count(board, "o") > 0
    /\ winEnemies(board)

C11_LoadRequiresThreeMusketeers == pc = "play" => Count(board, "M") = 3

(***************************************************************************)
(* C12.  readBoard on the text writeBoard produces for the board (symbols  *)
(* separated by single spaces, one row per line) succeeds and yields the   *)
(* same board, cell by cell.                                               *)
(***************************************************************************)
C12_SaveLoadRoundTrip == readBoard(writeBoard(board)) = [ok |-> TRUE, board |-> board]

\* An interrupted game has been saved after a capture, with Musketeers,
\* enemies and empty cells on the board.
C12_Witness ==
    /\ move.kind = "interrupt"
    /\ saves = <<writeBoard(board)>>
    /\ mMoves > 0
    /\ Count(board, "o") > 0
    /\ Len(writeBoard(board)) = 2 * N * N

C14_NeverBothWin ==
    (mMoves > 0 /\ Count(board, "M") = 3)
        => ~(winMusketeers(board) /\ winEnemies(board))

C16_NoAccessOutsideGrid ==
    (pc = "play" /\ ~winGame(board)) =>
        \A q \in Requests :
            q.kind = "move" =>
                IF musketeersTurn
                THEN isValidMusketeerMoveReads(q.row, q.col, q.direction, board)
                        \subseteq Cells
                ELSE isValidEnemyMoveReads(q.row, q.col, q.direction, board)
                        \subseteq Cells

(***************************************************************************)
(* C17.  Every rejected move yields a reason that tells its kind of        *)
(* rejection: two requests the validator of the side to move rejects for   *)
(* different kinds (OutOfBounds, InvalidDirection, NoPieceAtSource,        *)
(* IllegalTarget) make the program print different texts.                  *)
(***************************************************************************)
\* The kind of rejection of a request, by the order of the checks of a move:
\* source in the grid, direction, destination in the grid, piece at the
\* source, occupant of the destination.
RejectionKind(q, b, mTurn) ==
    IF ~InGrid(q.row, q.col) THEN "OutOfBounds"
    ELSE IF q.direction \notin Letters THEN "InvalidDirection"
    ELSE IF ~DestInGrid(q.row, q.col, q.direction) THEN "OutOfBounds"
    ELSE IF At(b, <<q.row, q.col>>) # (IF mTurn THEN "M" ELSE "o") THEN "NoPieceAtSource"
    ELSE IF At(b, Dest(q.row, q.col, q.direction)) # (IF mTurn THEN "o" ELSE ".")
    THEN "IllegalTarget"
    ELSE "Legal"

\* The validator of the side to move rejects the request, whatever lies
\* outside the array.
Rejects(q, b, mTurn) ==
    /\ q.kind = "move"
    /\ \A out \in Outside(q.row, q.col, b, IF mTurn THEN "M" ELSE "o") :
          IF mTurn
          THEN ~isValidMusketeerMove(q.row, q.col, q.direction, b, out)
          ELSE ~isValidEnemyMove(q.row, q.col, q.direction, b, out)

C17_RejectionsDistinguished ==
    (pc = "play" /\ ~winGame(board)) =>
        \A q1 \in Requests, q2 \in Requests :
            (/\ Rejects(q1, board, musketeersTurn)
             /\ Rejects(q2, board, musketeersTurn)
             /\ RejectionKind(q1, board, musketeersTurn)
                    # RejectionKind(q2, board, musketeersTurn))
                => MovePrints(q1, musketeersTurn, FALSE)
                        # MovePrints(q2, musketeersTurn, FALSE)

(***************************************************************************)
(* C18.  When the program is run again with the file an interrupted game   *)
(* has saved, the new session has the board and the side to move that the  *)
(* interrupted session had at the interrupt, whichever side that was.      *)
(***************************************************************************)
C18_ResumeContinues ==
    [][(pc = "done" /\ move.kind = "interrupt" /\ pc' = "play")
          => /\ board' = board
             /\ musketeersTurn' = musketeersTurn]_vars

(***************************************************************************)
(* C19.  While the game is in progress on a board with three Musketeers,   *)
(* the side to move has a position and a direction that its validator      *)
(* accepts, so that play is never left asking a side that cannot move;     *)
(* also on the enemies' turn when no Enemy has an Empty neighbour.          *)
(***************************************************************************)
C19_SideToMoveCanMove ==
    (pc = "play" /\ ~winGame(board) /\ Count(board, "M") = 3) =>
        \E row \in Idx, col \in Idx, direction \in Letters :
            \A out \in Outside(row, col, board, IF musketeersTurn THEN "M" ELSE "o") :
                IF musketeersTurn
                THEN isValidMusketeerMove(row, col, direction, board, out)
                ELSE isValidEnemyMove(row, col, direction, board, out)

(***************************************************************************)
(* C20.  In a session started from a board with E enemies, makeMove is     *)
(* called at most E times for the Musketeers and at most 2*E times in all; *)
(* each call changes the board and is counted, so that no session applies  *)
(* moves without end.                                                      *)
(***************************************************************************)
C20_MovesBounded ==
    /\ [](/\ mMoves <= loadedEnemies
          /\ mMoves + oMoves <= 2 * loadedEnemies
          /\ Count(board, "o") + mMoves <= loadedEnemies)
    /\ [][/\ board' # board => mMoves' + oMoves' = mMoves + oMoves + 1
          /\ mMoves' > mMoves => Count(board', "o") < Count(board, "o")
          /\ oMoves' > oMoves => mMoves > oMoves]_vars

\* Every enemy of a board loaded with several has been captured, with an
\* enemy move between the captures.
C20_Witness ==
    /\ loadedEnemies >= 2
    /\ mMoves = loadedEnemies
    /\ oMoves = mMoves - 1
    /\ Count(board, "o") = 0

====
